---- MODULE Spec2Model ----
(***************************************************************************)
(* QANet (src/models.py): the constructor's wiring of nine sub-modules,    *)
(* the forward pass that threads tensors through them, and the __main__    *)
(* smoke test.  Tensors are modelled by their shape, the module            *)
(* application that produced them and that application's inputs; the       *)
(* sub-layers themselves (layers.py) are not part of the file and are      *)
(* modelled by the shapes the comments of forward state for them.          *)
(***************************************************************************)
EXTENDS Integers, Sequences, FiniteSets, TLC

VARIABLES
    caller,     \* "main": run as a script (lines 50-56); "import": used by another script
    mpc,        \* position of the __main__ block
    word_vec,   \* __main__: the word vectors loaded from data/word_emb.json
    ctx_rand,   \* __main__: the values torch.rand drew for ctx (numerators over RandDen)
    q_rand,     \* __main__: the values torch.rand drew for q
    ctx,        \* __main__: ctx after .to(torch.int64)
    q,          \* __main__: q after .to(torch.int64)
    printed,    \* __main__: what was printed
    init_args,  \* the arguments QANet.__init__ ran with (history)
    qanet,      \* the constructed module: its nine sub-module attributes
    nbuilt,     \* number of QANet objects constructed (history)
    nforward,   \* number of calls of forward (history)
    context,    \* forward's argument context
    question,   \* forward's argument question
    pc,         \* position of forward: the statement to run next
    frame,      \* forward's local variables
    ret,        \* forward's return value
    raised,     \* the exception that left forward
    calls       \* the sub-module calls forward made, in order (history)

vars == <<caller, mpc, word_vec, ctx_rand, q_rand, ctx, q, printed, init_args,
          qanet, nbuilt, nforward, context, question, pc, frame, ret, raised, calls>>

mainVars == <<word_vec, ctx_rand, q_rand, ctx, q, printed>>
fwdVars == <<context, question, pc, frame, ret, raised, calls>>

----------------------------------------------------------------------------
(* Bounds of the model *)

MaxDim == 2        \* d_model, c_len, q_len, hidden_state, batch and input lengths range over 1..MaxDim
MaxData == 1       \* distinct payloads a model_enc application may return: 0..MaxData
MaxSample == 1     \* entries of ctx and of q that are followed individually
RandDen == 2       \* torch.rand draws k/RandDen, k in 0..RandDen-1

(* Program constants *)

DefaultDModel == 300
DefaultCLen == 200
DefaultQLen == 100
DefaultHiddenState == 128
DefaultHeads == 8
ConvKernel == 5
MainBatch == 2
MainCtxLen == 200
MainQLen == 100
CQAChannelFactor == 4

Dims == 1..MaxDim
Payloads == 0..MaxData

----------------------------------------------------------------------------
(* Values *)

Last(s) == s[Len(s)]

IsPrefix(s, t) == Len(s) <= Len(t) /\ \A i \in 1..Len(s) : s[i] = t[i]

NoTensor == [shape |-> <<>>, op |-> "none", inst |-> 0, args |-> <<>>, data |-> 0]

\* a tensor handed to forward by its caller
InputTensor(shape, name) ==
    [shape |-> shape, op |-> name, inst |-> 0, args |-> <<>>, data |-> 0]

NoLayer ==
    [kind |-> "none", id |-> 0, in_ch |-> 0, out_ch |-> 0, length |-> 0,
     heads |-> 0, kernel |-> 0, log_softmax |-> FALSE]

NoError == [stage |-> "none", inst |-> 0, kind |-> "none"]

NoArgs ==
    [word_vectors |-> 0, d_model |-> 0, c_len |-> 0, q_len |-> 0,
     hidden_state |-> 0, heads |-> 0, given |-> "none", log_softmax |-> FALSE]

NoModel ==
    [c_emb |-> NoLayer, q_emb |-> NoLayer, c_enc |-> NoLayer, q_enc |-> NoLayer,
     cqa |-> NoLayer, cq_conv |-> NoLayer, model_enc |-> NoLayer,
     start_out |-> NoLayer, end_out |-> NoLayer]

EmptyFrame ==
    [c_emb_enc |-> NoTensor, q_emb_enc |-> NoTensor, qc_att |-> NoTensor,
     mod_enc_1 |-> NoTensor, mod_enc_2 |-> NoTensor, mod_enc_3 |-> NoTensor,
     start_out |-> NoTensor, end_out |-> NoTensor]

NoIntTensor == [shape |-> <<>>, dtype |-> "none", entries |-> <<>>]

----------------------------------------------------------------------------
(* The sub-layer classes of layers.py, as the constructor calls them *)

InputEmbeddingLayer(id, word_vectors) ==
    [NoLayer EXCEPT !.kind = "InputEmbeddingLayer", !.id = id, !.out_ch = word_vectors]

EmbeddingEncodeLayer(id, d_model, length, hidden_state, heads) ==
    [NoLayer EXCEPT !.kind = "EmbeddingEncodeLayer", !.id = id, !.in_ch = d_model,
                    !.length = length, !.out_ch = hidden_state, !.heads = heads]

CQAttentionLayer(id, hidden_state) ==
    [NoLayer EXCEPT !.kind = "CQAttentionLayer", !.id = id, !.in_ch = hidden_state,
                    !.out_ch = hidden_state * CQAChannelFactor]

ConvolutionBlock(id, in_channels, out_channels, length, kernel) ==
    [NoLayer EXCEPT !.kind = "ConvolutionBlock", !.id = id, !.in_ch = in_channels,
                    !.out_ch = out_channels, !.length = length, !.kernel = kernel]

ModelEncoderLayer(id, hidden_state, length, heads) ==
    [NoLayer EXCEPT !.kind = "ModelEncoderLayer", !.id = id, !.in_ch = hidden_state,
                    !.out_ch = hidden_state, !.length = length, !.heads = heads]

OutputLayer(id, hidden_state, log_softmax) ==
    [NoLayer EXCEPT !.kind = "OutputLayer", !.id = id, !.in_ch = hidden_state,
                    !.log_softmax = log_softmax]

\* the shapes a layer takes: TRUE when the layer can run on args
Accepts(layer, args) ==
    CASE layer.kind = "InputEmbeddingLayer" ->
            Len(args) = 1 /\ Len(args[1].shape) = 2
      [] layer.kind \in {"EmbeddingEncodeLayer", "ConvolutionBlock", "ModelEncoderLayer"} ->
            /\ Len(args) = 1
            /\ Len(args[1].shape) = 3
            /\ args[1].shape[2] = layer.in_ch
            /\ args[1].shape[3] = layer.length
      [] layer.kind = "CQAttentionLayer" ->
            /\ Len(args) = 2
            /\ Len(args[1].shape) = 3
            /\ Len(args[2].shape) = 3
            /\ args[1].shape[1] = args[2].shape[1]
            /\ args[1].shape[2] = layer.in_ch
            /\ args[2].shape[2] = layer.in_ch
      [] layer.kind = "OutputLayer" ->
            /\ Len(args) = 2
            /\ Len(args[1].shape) = 3
            /\ args[1].shape = args[2].shape
            /\ args[1].shape[2] = layer.in_ch
      [] OTHER -> FALSE

\* the shape a layer returns on args it accepts
OutShape(layer, args) ==
    CASE layer.kind = "InputEmbeddingLayer" ->
            <<args[1].shape[1], layer.out_ch, args[1].shape[2]>>
      [] layer.kind \in {"EmbeddingEncodeLayer", "ConvolutionBlock", "ModelEncoderLayer",
                         "CQAttentionLayer"} ->
            <<args[1].shape[1], layer.out_ch, args[1].shape[3]>>
      [] layer.kind = "OutputLayer" ->
            <<args[1].shape[1], args[1].shape[3]>>
      [] OTHER -> <<>>

\* the tensor the module stored in attribute attr returns on args
Apply(layer, attr, args, data) ==
    [shape |-> OutShape(layer, args), op |-> attr, inst |-> layer.id,
     args |-> args, data |-> data]

----------------------------------------------------------------------------
(* QANet.__init__ *)

\* __init__ with the input channels of cq_conv not matching the attention output
QANetInit_conv_channels(word_vectors, d_model, c_len, q_len, hidden_state, heads, log_softmax) ==
    [c_emb     |-> InputEmbeddingLayer(1, word_vectors),
     q_emb     |-> InputEmbeddingLayer(2, word_vectors),
     c_enc     |-> EmbeddingEncodeLayer(3, d_model, c_len, hidden_state, heads),
     q_enc     |-> EmbeddingEncodeLayer(4, d_model, q_len, hidden_state, heads),
     cqa       |-> CQAttentionLayer(5, hidden_state),
     cq_conv   |-> ConvolutionBlock(6, hidden_state * 2, hidden_state, c_len, ConvKernel),
     model_enc |-> ModelEncoderLayer(7, hidden_state, c_len, heads),
     start_out |-> OutputLayer(8, hidden_state, log_softmax),
     end_out   |-> OutputLayer(9, hidden_state, log_softmax)]

\* __init__ with end_out left at OutputLayer's own default
QANetInit_end_default(word_vectors, d_model, c_len, q_len, hidden_state, heads, log_softmax) ==
    [c_emb     |-> InputEmbeddingLayer(1, word_vectors),
     q_emb     |-> InputEmbeddingLayer(2, word_vectors),
     c_enc     |-> EmbeddingEncodeLayer(3, d_model, c_len, hidden_state, heads),
     q_enc     |-> EmbeddingEncodeLayer(4, d_model, q_len, hidden_state, heads),
     cqa       |-> CQAttentionLayer(5, hidden_state),
     cq_conv   |-> ConvolutionBlock(6, hidden_state * 4, hidden_state, c_len, ConvKernel),
     model_enc |-> ModelEncoderLayer(7, hidden_state, c_len, heads),
     start_out |-> OutputLayer(8, hidden_state, log_softmax),
     end_out   |-> OutputLayer(9, hidden_state, FALSE)]

\* lines 19-29: nine sub-modules, each a fresh instance
QANetInit(word_vectors, d_model, c_len, q_len, hidden_state, heads, log_softmax) ==
    [c_emb     |-> InputEmbeddingLayer(1, word_vectors),
     q_emb     |-> InputEmbeddingLayer(2, word_vectors),
     c_enc     |-> EmbeddingEncodeLayer(3, d_model, c_len, hidden_state, heads),
     q_enc     |-> EmbeddingEncodeLayer(4, d_model, q_len, hidden_state, heads),
     cqa       |-> CQAttentionLayer(5, hidden_state),
     cq_conv   |-> ConvolutionBlock(6, hidden_state * 4, hidden_state, c_len, ConvKernel),
     model_enc |-> ModelEncoderLayer(7, hidden_state, c_len, heads),
     start_out |-> OutputLayer(8, hidden_state, log_softmax),
     end_out   |-> OutputLayer(9, hidden_state, log_softmax)]

\* the value of the parameter log_softmax: the keyword given, or the default of line 19
LogSoftmaxParam(given) == IF given = "omitted" THEN FALSE ELSE given = "True"

\* the call QANet(word_vectors, ...): `given` is the log_softmax keyword as written
InitArgs(word_vectors, d_model, c_len, q_len, hidden_state, heads, given) ==
    [word_vectors |-> word_vectors, d_model |-> d_model, c_len |-> c_len, q_len |-> q_len,
     hidden_state |-> hidden_state, heads |-> heads, given |-> given,
     log_softmax |-> LogSoftmaxParam(given)]

----------------------------------------------------------------------------
(* QANet.forward *)

\* the statements of forward swapped: the attention runs before the question encoder
NextStage_attention_early(stage) ==
    CASE stage = "c_emb" -> "q_emb"
      [] stage = "q_emb" -> "c_enc"
      [] stage = "c_enc" -> "cqa"
      [] stage = "cqa" -> "q_enc"
      [] stage = "q_enc" -> "cq_conv"
      [] stage = "cq_conv" -> "mod_enc_1"
      [] stage = "mod_enc_1" -> "mod_enc_2"
      [] stage = "mod_enc_2" -> "mod_enc_3"
      [] stage = "mod_enc_3" -> "start_out"
      [] stage = "start_out" -> "end_out"
      [] stage = "end_out" -> "return"
      [] OTHER -> "done"

\* lines 32-48 in program order: the statement that follows the one assigning `stage`
NextStage(stage) ==
    CASE stage = "c_emb" -> "q_emb"
      [] stage = "q_emb" -> "c_enc"
      [] stage = "c_enc" -> "q_enc"
      [] stage = "q_enc" -> "cqa"
      [] stage = "cqa" -> "cq_conv"
      [] stage = "cq_conv" -> "mod_enc_1"
      [] stage = "mod_enc_1" -> "mod_enc_2"
      [] stage = "mod_enc_2" -> "mod_enc_3"
      [] stage = "mod_enc_3" -> "start_out"
      [] stage = "start_out" -> "end_out"
      [] stage = "end_out" -> "return"
      [] OTHER -> "done"

\* the failure of a sub-module call swallowed: forward goes on with the next statement
Raise_swallowed(err) ==
    /\ pc' = NextStage(pc)
    /\ UNCHANGED <<raised, frame, ret>>

\* an exception of a sub-module call is not caught in forward: it leaves forward as it is
Raise(err) ==
    /\ pc' = "failed"
    /\ raised' = err
    /\ UNCHANGED <<frame, ret>>

\* one statement  target = self.attr(args):  the call either returns or raises
Call(stage, attr, target, args, payloads) ==
    /\ pc = stage
    /\ \E ok \in BOOLEAN, data \in payloads :
          IF ok /\ Accepts(qanet[attr], args)
          THEN /\ calls' = Append(calls, [attr |-> attr, inst |-> qanet[attr].id,
                                          args |-> args, ok |-> TRUE])
               /\ frame' = [frame EXCEPT ![target] = Apply(qanet[attr], attr, args, data)]
               /\ pc' = NextStage(pc)
               /\ UNCHANGED <<raised, ret>>
          ELSE /\ calls' = Append(calls, [attr |-> attr, inst |-> qanet[attr].id,
                                          args |-> args, ok |-> FALSE])
               /\ Raise([stage |-> attr, inst |-> qanet[attr].id,
                         kind |-> IF Accepts(qanet[attr], args) THEN "layer" ELSE "shape"])
    /\ UNCHANGED <<context, question>>
    /\ UNCHANGED <<caller, mpc, mainVars, init_args, qanet, nbuilt, nforward>>

CEmb == Call("c_emb", "c_emb", "c_emb_enc", <<context>>, {0})                 \* line 32

QEmb == Call("q_emb", "q_emb", "q_emb_enc", <<question>>, {0})                \* line 33

CEnc == Call("c_enc", "c_enc", "c_emb_enc", <<frame.c_emb_enc>>, {0})         \* line 35

QEnc == Call("q_enc", "q_enc", "q_emb_enc", <<frame.q_emb_enc>>, {0})         \* line 36

CQA == Call("cqa", "cqa", "qc_att", <<frame.c_emb_enc, frame.q_emb_enc>>, {0}) \* line 38

CQConv == Call("cq_conv", "cq_conv", "qc_att", <<frame.qc_att>>, {0})         \* line 39

ModelEnc1 == Call("mod_enc_1", "model_enc", "mod_enc_1", <<frame.qc_att>>, Payloads)    \* line 41

ModelEnc2 == Call("mod_enc_2", "model_enc", "mod_enc_2", <<frame.mod_enc_1>>, Payloads) \* line 42

\* the third application fed the first output again instead of the second
ModelEnc3_unchained ==
    Call("mod_enc_3", "model_enc", "mod_enc_3", <<frame.mod_enc_1>>, Payloads)

ModelEnc3 == Call("mod_enc_3", "model_enc", "mod_enc_3", <<frame.mod_enc_2>>, Payloads) \* line 43

\* the start output computed from the third model encoding
StartOut_from_third ==
    Call("start_out", "start_out", "start_out", <<frame.mod_enc_1, frame.mod_enc_3>>, {0})

StartOut ==                                                                   \* line 45
    Call("start_out", "start_out", "start_out", <<frame.mod_enc_1, frame.mod_enc_2>>, {0})

EndOut ==                                                                     \* line 46
    Call("end_out", "end_out", "end_out", <<frame.mod_enc_1, frame.mod_enc_3>>, {0})

\* forward returning the pair the other way round
Return_swapped ==
    /\ pc = "return"
    /\ ret' = <<frame.end_out, frame.start_out>>
    /\ pc' = "done"
    /\ UNCHANGED <<context, question, frame, raised, calls>>
    /\ UNCHANGED <<caller, mpc, mainVars, init_args, qanet, nbuilt, nforward>>

Return ==                                                                     \* line 48
    /\ pc = "return"
    /\ ret' = <<frame.start_out, frame.end_out>>
    /\ pc' = "done"
    /\ UNCHANGED <<context, question, frame, raised, calls>>
    /\ UNCHANGED <<caller, mpc, mainVars, init_args, qanet, nbuilt, nforward>>

\* entering forward(context, question): nn.Module.__call__ on the constructed object
Enter(c, qu) ==
    /\ pc = "idle"
    /\ nforward' = nforward + 1
    /\ context' = c
    /\ question' = qu
    /\ frame' = EmptyFrame
    /\ pc' = "c_emb"
    /\ UNCHANGED <<ret, raised, calls>>

----------------------------------------------------------------------------
(* A caller that imports the module *)

Construct ==
    /\ caller = "import"
    /\ nbuilt = 0
    /\ \E wv \in Dims, d_model \in Dims, c_len \in Dims, q_len \in Dims,
          hidden_state \in Dims, ls \in {"omitted", "True", "False"} :
          /\ qanet' = QANetInit(wv, d_model, c_len, q_len, hidden_state, DefaultHeads,
                                LogSoftmaxParam(ls))
          /\ init_args' = InitArgs(wv, d_model, c_len, q_len, hidden_state, DefaultHeads, ls)
    /\ nbuilt' = nbuilt + 1
    /\ UNCHANGED <<caller, mpc, mainVars, nforward, fwdVars>>

Forward ==
    /\ caller = "import"
    /\ nbuilt = 1
    /\ \E b \in Dims, lc \in Dims, bq \in Dims, lq \in Dims :
          Enter(InputTensor(<<b, lc>>, "context"), InputTensor(<<bq, lq>>, "question"))
    /\ UNCHANGED <<caller, mpc, mainVars, init_args, qanet, nbuilt>>

----------------------------------------------------------------------------
(* The __main__ block *)

\* Tensor.to(torch.int64) on a non-negative value num/den: the fraction is dropped
ToInt64(num, den) == num \div den

\* torch.rand: each entry uniform on [0, 1), here k/RandDen
RandDraws == [1..MaxSample -> 0..(RandDen - 1)]

RandInt64(shape, draws) ==
    [shape |-> shape, dtype |-> "int64",
     entries |-> [i \in 1..MaxSample |-> ToInt64(draws[i], RandDen)]]

MainLoadWordVec ==                                                            \* line 51
    /\ caller = "main" /\ mpc = "word_vec"
    /\ \E dim \in Dims \cup {DefaultDModel} : word_vec' = dim
    /\ mpc' = "ctx"
    /\ UNCHANGED <<caller, ctx_rand, q_rand, ctx, q, printed, init_args, qanet, nbuilt,
                   nforward, fwdVars>>

MainCtx ==                                                                    \* line 52
    /\ caller = "main" /\ mpc = "ctx"
    /\ \E draws \in RandDraws :
          /\ ctx_rand' = draws
          /\ ctx' = RandInt64(<<MainBatch, MainCtxLen>>, draws)
    /\ mpc' = "q"
    /\ UNCHANGED <<caller, word_vec, q_rand, q, printed, init_args, qanet, nbuilt,
                   nforward, fwdVars>>

MainQ ==                                                                      \* line 53
    /\ caller = "main" /\ mpc = "q"
    /\ \E draws \in RandDraws :
          /\ q_rand' = draws
          /\ q' = RandInt64(<<MainBatch, MainQLen>>, draws)
    /\ mpc' = "qanet"
    /\ UNCHANGED <<caller, word_vec, ctx_rand, ctx, printed, init_args, qanet, nbuilt,
                   nforward, fwdVars>>

MainConstruct ==                                                              \* line 54
    /\ caller = "main" /\ mpc = "qanet"
    /\ qanet' = QANetInit(word_vec, DefaultDModel, DefaultCLen, DefaultQLen,
                          DefaultHiddenState, DefaultHeads, LogSoftmaxParam("True"))
    /\ init_args' = InitArgs(word_vec, DefaultDModel, DefaultCLen, DefaultQLen,
                             DefaultHiddenState, DefaultHeads, "True")
    /\ nbuilt' = nbuilt + 1
    /\ mpc' = "hello"
    /\ UNCHANGED <<caller, mainVars, nforward, fwdVars>>

MainHello ==                                                                  \* line 55
    /\ caller = "main" /\ mpc = "hello"
    /\ printed' = Append(printed, "Hello, QANet")
    /\ mpc' = "call"
    /\ UNCHANGED <<caller, word_vec, ctx_rand, q_rand, ctx, q, init_args, qanet, nbuilt,
                   nforward, fwdVars>>

MainCall ==                                                                   \* line 56, qanet(ctx, q)
    /\ caller = "main" /\ mpc = "call"
    /\ Enter(InputTensor(ctx.shape, "context"), InputTensor(q.shape, "question"))
    /\ mpc' = "print"
    /\ UNCHANGED <<caller, mainVars, init_args, qanet, nbuilt>>

MainPrint ==                                                                  \* line 56, print(...)
    /\ caller = "main" /\ mpc = "print" /\ pc = "done"
    /\ printed' = Append(printed, "result")
    /\ mpc' = "exit"
    /\ UNCHANGED <<caller, word_vec, ctx_rand, q_rand, ctx, q, init_args, qanet, nbuilt,
                   nforward, fwdVars>>

MainCrash ==                                                                  \* line 56, uncaught
    /\ caller = "main" /\ mpc = "print" /\ pc = "failed"
    /\ mpc' = "crashed"
    /\ UNCHANGED <<caller, mainVars, init_args, qanet, nbuilt, nforward, fwdVars>>

----------------------------------------------------------------------------

Init ==
    /\ caller \in {"main", "import"}
    /\ mpc = IF caller = "main" THEN "word_vec" ELSE "imported"
    /\ word_vec = 0
    /\ ctx_rand = [i \in 1..MaxSample |-> 0]
    /\ q_rand = [i \in 1..MaxSample |-> 0]
    /\ ctx = NoIntTensor
    /\ q = NoIntTensor
    /\ printed = <<>>
    /\ init_args = NoArgs
    /\ qanet = NoModel
    /\ nbuilt = 0
    /\ nforward = 0
    /\ context = NoTensor
    /\ question = NoTensor
    /\ pc = "idle"
    /\ frame = EmptyFrame
    /\ ret = <<>>
    /\ raised = NoError
    /\ calls = <<>>

Next ==
    \/ Construct
    \/ Forward
    \/ MainLoadWordVec
    \/ MainCtx
    \/ MainQ
    \/ MainConstruct
    \/ MainHello
    \/ MainCall
    \/ MainPrint
    \/ MainCrash
    \/ CEmb
    \/ QEmb
    \/ CEnc
    \/ QEnc
    \/ CQA
    \/ CQConv
    \/ ModelEnc1
    \/ ModelEnc2
    \/ ModelEnc3
    \/ StartOut
    \/ EndOut
    \/ Return

Spec == Init /\ [][Next]_vars

----------------------------------------------------------------------------
(* Properties *)

ForwardStep ==
    \/ CEmb \/ QEmb \/ CEnc \/ QEnc \/ CQA \/ CQConv
    \/ ModelEnc1 \/ ModelEnc2 \/ ModelEnc3 \/ StartOut \/ EndOut \/ Return

Running == pc \notin {"idle", "done", "failed"}

Attrs == [i \in 1..Len(calls) |-> calls[i].attr]

Order ==
    <<"c_emb", "q_emb", "c_enc", "q_enc", "cqa", "cq_conv",
      "model_enc", "model_enc", "model_enc", "start_out", "end_out">>

\* tensor t is what the k-th call of the log returned
ReturnedBy(t, k) ==
    /\ calls[k].ok
    /\ t.op = calls[k].attr
    /\ t.inst = calls[k].inst
    /\ t.args = calls[k].args

\* C1: the sub-module calls forward has made are always an initial part of the
\* one sequence c_emb, q_emb, c_enc, q_enc, cqa, cq_conv, model_enc (three
\* times), start_out, end_out, whatever the inputs; and every argument of a call
\* is an argument of forward or the result of an earlier call that returned.
C1_FixedOrder ==
    /\ IsPrefix(Attrs, Order)
    /\ \A i \in 1..Len(calls) : \A j \in 1..Len(calls[i].args) :
          \/ calls[i].args[j] \in {context, question}
          \/ \E k \in 1..(i - 1) : ReturnedBy(calls[i].args[j], k)

C1_Witness == pc = "done" /\ Attrs = Order /\ caller = "import"

\* C2: a completed call returns the pair (start_out, end_out), in that order,
\* each of shape (batch_size, c_len) where c_len is also the length of the
\* context given; q_len does not occur in it.
C2_ReturnsTwoContextScores ==
    pc = "done" =>
        /\ Len(ret) = 2
        /\ ret[1].op = "start_out" /\ ret[1].inst = qanet.start_out.id
        /\ ret[2].op = "end_out" /\ ret[2].inst = qanet.end_out.id
        /\ ret[1].shape = <<context.shape[1], init_args.c_len>>
        /\ ret[2].shape = <<context.shape[1], init_args.c_len>>
        /\ context.shape[2] = init_args.c_len

C2_Witness ==
    /\ pc = "done"
    /\ init_args.q_len > init_args.c_len
    /\ context.shape[1] > 1

\* C3: once the smoke test has called the model it has built one QANet with the
\* default lengths and log_softmax=True, has called it once on ctx of shape
\* (2, 200) and q of shape (2, 100), and the entries of ctx and q are the
\* integer indices that were drawn at random (the conversion to int64 keeps the
\* value drawn).
C3_SmokeTestRandomIndices ==
    (caller = "main" /\ mpc \in {"print", "exit", "crashed"}) =>
        /\ nbuilt = 1 /\ nforward = 1
        /\ init_args.c_len = DefaultCLen /\ init_args.q_len = DefaultQLen
        /\ init_args.given = "True" /\ qanet.start_out.log_softmax
        /\ ctx.shape = <<2, 200>> /\ context.shape = ctx.shape
        /\ q.shape = <<2, 100>> /\ question.shape = q.shape
        /\ ctx.dtype = "int64" /\ q.dtype = "int64"
        /\ \A i \in 1..MaxSample : ctx.entries[i] * RandDen = ctx_rand[i]
        /\ \A i \in 1..MaxSample : q.entries[i] * RandDen = q_rand[i]

\* what the smoke test does build: the same, with every entry of ctx and q zero
C3_SmokeTestZeroIndices ==
    (caller = "main" /\ mpc \in {"print", "exit", "crashed"}) =>
        /\ nbuilt = 1 /\ nforward = 1
        /\ init_args.c_len = DefaultCLen /\ init_args.q_len = DefaultQLen
        /\ init_args.given = "True" /\ qanet.start_out.log_softmax
        /\ ctx.shape = <<2, 200>> /\ context.shape = ctx.shape
        /\ q.shape = <<2, 100>> /\ question.shape = q.shape
        /\ ctx.dtype = "int64" /\ q.dtype = "int64"
        /\ \A i \in 1..MaxSample : ctx.entries[i] = 0 /\ q.entries[i] = 0

\* C4: a sub-module call that fails is the last call forward makes: forward is
\* then failed with that call's error, nothing is returned, and no call
\* (of that stage or a later one) follows; forward fails in no other way.
C4_NoFailureHandling ==
    /\ \A i \in 1..Len(calls) :
          ~calls[i].ok =>
              /\ i = Len(calls)
              /\ pc = "failed"
              /\ ret = <<>>
              /\ raised.stage = calls[i].attr
              /\ raised.inst = calls[i].inst
    /\ pc = "failed" => (Len(calls) > 0 /\ ~Last(calls).ok)
    /\ (raised # NoError) <=> (pc = "failed")

C4_Witness ==
    /\ pc = "failed"
    /\ raised.kind = "layer"
    /\ raised.stage = "cqa"
    /\ frame.mod_enc_1 = NoTensor

\* C5: when every sub-module call has returned forward has made 11 calls: one
\* of each of c_emb, q_emb, c_enc, q_enc, cqa, cq_conv, start_out, end_out and
\* three of the one model_enc instance, chained from the cq_conv output; it
\* never makes more than 11, and while it runs it can always take its next step.
C5_ElevenCallsChained ==
    /\ Len(calls) <= 11
    /\ Running => ENABLED ForwardStep
    /\ pc \in {"return", "done"} =>
          /\ Len(calls) = 11
          /\ \A a \in {"c_emb", "q_emb", "c_enc", "q_enc", "cqa", "cq_conv",
                       "start_out", "end_out"} :
                Cardinality({i \in 1..11 : calls[i].attr = a}) = 1
          /\ {i \in 1..11 : calls[i].attr = "model_enc"} = {7, 8, 9}
          /\ \A i \in {7, 8, 9} : calls[i].inst = qanet.model_enc.id
          /\ calls[7].args = <<frame.qc_att>> /\ ReturnedBy(frame.qc_att, 6)
          /\ calls[8].args = <<frame.mod_enc_1>> /\ ReturnedBy(frame.mod_enc_1, 7)
          /\ calls[9].args = <<frame.mod_enc_2>> /\ ReturnedBy(frame.mod_enc_2, 8)
          /\ ReturnedBy(frame.mod_enc_3, 9)

C5_Witness == pc = "done" /\ Len(calls) = 11 /\ caller = "main"

RECURSIVE Uses(_, _)
\* tensor t is s or was computed from s
Uses(t, s) == t = s \/ \E i \in 1..Len(t.args) : Uses(t.args[i], s)

\* C6: the start output is start_out applied to (mod_enc_1, mod_enc_2) and the
\* end output is end_out applied to (mod_enc_1, mod_enc_3), mod_enc_k being
\* what the k-th model_enc call returned; the two output modules are different
\* instances; the third model_enc result is not used for the start output.
C6_OutputWiring ==
    /\ qanet.start_out.id # qanet.end_out.id \/ qanet = NoModel
    /\ pc \in {"return", "done"} =>
          /\ calls[10].attr = "start_out" /\ ReturnedBy(frame.start_out, 10)
          /\ calls[10].args = <<frame.mod_enc_1, frame.mod_enc_2>>
          /\ calls[11].attr = "end_out" /\ ReturnedBy(frame.end_out, 11)
          /\ calls[11].args = <<frame.mod_enc_1, frame.mod_enc_3>>
          /\ \A k \in 1..3 : calls[6 + k].attr = "model_enc"
          /\ ReturnedBy(frame.mod_enc_1, 7)
          /\ ReturnedBy(frame.mod_enc_2, 8)
          /\ ReturnedBy(frame.mod_enc_3, 9)
          /\ ~Uses(frame.start_out, frame.mod_enc_3)
          /\ Uses(frame.end_out, frame.mod_enc_3)
    /\ pc = "done" => ret = <<frame.start_out, frame.end_out>>

C6_Witness ==
    /\ pc = "done"
    /\ frame.mod_enc_3.data # frame.mod_enc_2.data
    /\ frame.mod_enc_1.data = frame.mod_enc_2.data

Shapes(args) == [j \in 1..Len(args) |-> args[j].shape]

\* the shapes the i-th call of forward is given according to the comments of
\* lines 32-46, for batch size b
ExpectedIn(i, b) ==
    CASE i = 1 -> <<context.shape>>
      [] i = 2 -> <<question.shape>>
      [] i = 3 -> << <<b, init_args.d_model, init_args.c_len>> >>
      [] i = 4 -> << <<b, init_args.d_model, init_args.q_len>> >>
      [] i = 5 -> << <<b, init_args.hidden_state, init_args.c_len>>,
                     <<b, init_args.hidden_state, init_args.q_len>> >>
      [] i = 6 -> << <<b, init_args.hidden_state * 4, init_args.c_len>> >>
      [] i \in {7, 8, 9} -> << <<b, init_args.hidden_state, init_args.c_len>> >>
      [] OTHER -> << <<b, init_args.hidden_state, init_args.c_len>>,
                     <<b, init_args.hidden_state, init_args.c_len>> >>

ShapesChain ==
    /\ \A i \in 1..Len(calls) :
          /\ Shapes(calls[i].args) = ExpectedIn(i, context.shape[1])
          /\ Accepts(qanet[calls[i].attr], calls[i].args)
    /\ \A v \in {"start_out", "end_out"} :
          frame[v] # NoTensor => frame[v].shape = <<context.shape[1], init_args.c_len>>

\* the context and question given are (batch, c_len) and (batch, q_len), with
\* one batch size
InputsFit ==
    /\ context.shape = <<context.shape[1], init_args.c_len>>
    /\ question.shape = <<context.shape[1], init_args.q_len>>

\* the word vectors given to the constructor have d_model components
Compatible == init_args.word_vectors = init_args.d_model /\ InputsFit

C8_SameLogSoftmaxMode ==
    nbuilt > 0 =>
        /\ qanet.start_out.log_softmax = (init_args.given = "True")
        /\ qanet.end_out.log_softmax = (init_args.given = "True")
        /\ qanet.start_out.log_softmax = qanet.end_out.log_softmax
        /\ caller = "main" => qanet.end_out.log_softmax

C8_Witness ==
    /\ nbuilt = 1
    /\ qanet.start_out.log_softmax
    /\ qanet.end_out.log_softmax
    /\ pc = "done"

C8_WitnessDefault == nbuilt = 1 /\ init_args.given = "omitted" /\ pc = "done"

====
